---- MODULE Spec2Model ----
(***************************************************************************)
(* Country Currency & Exchange API (src/app): the refresh / reconciliation *)
(* pipeline, the store behind it and the read, delete and image handlers.  *)
(*                                                                         *)
(* Conventions of the model                                                *)
(*   - a Python Optional value is a sequence: <<>> is None, <<v>> is v;    *)
(*   - a string the code compares, folds or pattern-matches (a name, a     *)
(*     currency code, a query parameter) is a sequence of one-character    *)
(*     strings, so that lower(), upper() and ILIKE are computed, not       *)
(*     assumed; strings that are only passed through are TLA+ strings;     *)
(*   - floats are integers; the rates and populations drawn are such that  *)
(*     population * multiplier / rate is exact;                            *)
(*   - the table "countries" is the set of its committed rows.             *)
(***************************************************************************)
EXTENDS Integers, Sequences, FiniteSets, TLC

VARIABLES
    store,    \* committed rows of table countries (models.Country)
    nextId,   \* next value of the id sequence of countries.id
    now,      \* the clock datetime.utcnow() reads
    cache,    \* whether cache/summary.png is a file
    req,      \* the request being answered and what its environment returned
    obs,      \* values the handler computed on the way (reconciled dicts, render arguments)
    resp,     \* the response: status and body
    sess      \* the two overlapping refresh calls: position and Session contents

vars == <<store, nextId, now, cache, req, obs, resp, sess>>

---------------------------------------------------------------------------
(* Bounds of the model *)

MaxClock == 1
MaxId == 3
MaxBatch == 2

(* Program constants *)
DefaultPopulation == 1000000
GdpPerCapitaMin == 1000
GdpPerCapitaMax == 2000
TopN == 5

---------------------------------------------------------------------------
(* Optional values and strings *)

None == <<>>
Some(v) == <<v>>
IsNone(o) == Len(o) = 0
Val(o) == o[1]

LowerChar(c) ==
    CASE c = "A" -> "a" [] c = "B" -> "b" [] c = "C" -> "c" [] c = "D" -> "d"
      [] c = "E" -> "e" [] c = "R" -> "r" [] c = "S" -> "s" [] c = "U" -> "u"
      [] OTHER -> c

UpperChar(c) ==
    CASE c = "a" -> "A" [] c = "b" -> "B" [] c = "c" -> "C" [] c = "d" -> "D"
      [] c = "e" -> "E" [] c = "r" -> "R" [] c = "s" -> "S" [] c = "u" -> "U"
      [] OTHER -> c

RECURSIVE Lower(_)
Lower(s) == IF s = <<>> THEN <<>> ELSE <<LowerChar(Head(s))>> \o Lower(Tail(s))

RECURSIVE Upper(_)
Upper(s) == IF s = <<>> THEN <<>> ELSE <<UpperChar(Head(s))>> \o Upper(Tail(s))

(* SQL LIKE: "_" matches any one character, "%" any run of characters.     *)
(* (The escape character "\" is not in the alphabet of the model.)         *)
RECURSIVE Like(_, _)
Like(s, p) ==
    IF p = <<>> THEN s = <<>>
    ELSE IF Head(p) = "%" THEN Like(s, Tail(p)) \/ (s # <<>> /\ Like(Tail(s), p))
    ELSE IF s = <<>> THEN FALSE
    ELSE (Head(p) = "_" \/ Head(p) = Head(s)) /\ Like(Tail(s), Tail(p))

(* Column.ilike(pattern): PostgreSQL's  column ILIKE pattern  *)
ILike(s, p) == Like(Lower(s), Lower(p))

(* Names equal ignoring letter case *)
SameNameIgnoringCase(a, b) == Lower(a) = Lower(b)

---------------------------------------------------------------------------
(* Record Reconciler: utils.compute_estimated_gdp, utils.extract_country_data *)

(* "if not exchange_rate": None and 0 are both falsy.  gdp_per_capita is   *)
(* the value random.uniform(1000, 2000) returned.                          *)
compute_estimated_gdp(population, exchange_rate, gdp_per_capita) ==
    IF IsNone(exchange_rate) \/ Val(exchange_rate) = 0 THEN None
    ELSE Some((population * gdp_per_capita) \div Val(exchange_rate))

(* dict.get(key): the value, or None when the key is missing *)
DictGet(d, k) == IF k \in DOMAIN d THEN Some(d[k]) ELSE None

(* country_data: [name, capital, region, population, flag, currencies];   *)
(* population is None when the key is missing, currencies is the list of  *)
(* the entries' "code" values (None for an entry without a code).         *)
extract_country_data_keeping_population(country_data, exchange_rates, gdp_per_capita, utcnow) ==
    LET currencies == country_data.currencies
        currency_code == IF currencies # <<>> THEN currencies[1] ELSE None
        exchange_rate == IF ~IsNone(currency_code)
                         THEN DictGet(exchange_rates, Val(currency_code))
                         ELSE None
        population == IF IsNone(country_data.population) THEN 0
                      ELSE Val(country_data.population)
        estimated_gdp == IF ~IsNone(exchange_rate) /\ Val(exchange_rate) # 0
                         THEN compute_estimated_gdp(population, exchange_rate, gdp_per_capita)
                         ELSE None
    IN  [ name |-> country_data.name,
          capital |-> country_data.capital,
          region |-> country_data.region,
          population |-> population,
          currency_code |-> currency_code,
          exchange_rate |-> exchange_rate,
          estimated_gdp |-> estimated_gdp,
          flag_url |-> country_data.flag,
          last_refreshed_at |-> utcnow ]

extract_country_data(country_data, exchange_rates, gdp_per_capita, utcnow) ==
    LET currencies == country_data.currencies
        currency_code == IF currencies # <<>> THEN currencies[1] ELSE None
        exchange_rate == IF ~IsNone(currency_code)
                         THEN DictGet(exchange_rates, Val(currency_code))
                         ELSE None
        raw_population == IF IsNone(country_data.population) THEN 0
                          ELSE Val(country_data.population)
        population == IF raw_population <= 0 THEN DefaultPopulation ELSE raw_population
        estimated_gdp == IF ~IsNone(exchange_rate) /\ Val(exchange_rate) # 0
                         THEN compute_estimated_gdp(population, exchange_rate, gdp_per_capita)
                         ELSE None
    IN  [ name |-> country_data.name,
          capital |-> country_data.capital,
          region |-> country_data.region,
          population |-> population,
          currency_code |-> currency_code,
          exchange_rate |-> exchange_rate,
          estimated_gdp |-> estimated_gdp,
          flag_url |-> country_data.flag,
          last_refreshed_at |-> utcnow ]

---------------------------------------------------------------------------
(* External Data Clients: utils.fetch_country_data, utils.fetch_exchange_rates *)

(* An HTTP exchange: [ok, body].  ok is FALSE for a network failure, a     *)
(* non-2xx status or a body that is not JSON; the except clause turns each *)
(* into ExternalAPIError, modelled as the result None.                     *)
(* The countries body is [kind |-> "list", items] or                       *)
(* [kind |-> "object", data] with data None when the key is missing.       *)
fetch_country_data(response) ==
    IF ~response.ok THEN None
    ELSE IF response.body.kind = "list" THEN Some(response.body.items)
    ELSE IF IsNone(response.body.data) THEN Some(<<>>)
    ELSE Some(Val(response.body.data))

(* The rates body is [rates], None when the key is missing: .get('rates', {}) *)
fetch_exchange_rates_or_empty(response) ==
    IF ~response.ok \/ IsNone(response.body.rates) THEN Some(<<>>)
    ELSE Some(Val(response.body.rates))
fetch_exchange_rates(response) ==
    IF ~response.ok THEN None
    ELSE IF IsNone(response.body.rates) THEN Some(<<>>)
    ELSE Some(Val(response.body.rates))

---------------------------------------------------------------------------
(* Store access: the Session (autocommit=False, autoflush=False) over the  *)
(* table countries, whose name column is UNIQUE (exact comparison).        *)

(* db.query(Country).filter(Country.name.ilike(name)): the committed rows  *)
(* whose name matches the pattern; rows pending in the Session are not     *)
(* seen (autoflush=False).  .first() returns one of them, which one is not *)
(* specified without ORDER BY, or None when there is none.                 *)
query_name_ilike(table, name) == {r \in table : ILike(r.name, name)}

(* db.query(Country).filter(Country.name == name): "=" on a varchar         *)
(* compares the characters exactly                                         *)
query_name_eq_ignoring_case(table, name) == {r \in table : Lower(r.name) = Lower(name)}
query_name_eq(table, name) == {r \in table : r.name = name}

(* A row: the column values of country_dict under the surrogate id *)
Row(id, d) ==
    [ id |-> id, name |-> d.name, capital |-> d.capital, region |-> d.region,
      population |-> d.population, currency_code |-> d.currency_code,
      exchange_rate |-> d.exchange_rate, estimated_gdp |-> d.estimated_gdp,
      flag_url |-> d.flag_url, last_refreshed_at |-> d.last_refreshed_at ]

(* The Session of one refresh: loaded maps the id of each row the queries  *)
(* returned to the row as it was first loaded (the identity map keeps that *)
(* copy), dirty maps it to the country_dict last setattr'ed onto it, new   *)
(* lists the country_dicts db.add()ed; reconciled and matched record, per  *)
(* entry, the country_dict and the id of the row found (0 when none was).  *)
EmptySession ==
    [loaded |-> <<>>, dirty |-> <<>>, new |-> <<>>, reconciled |-> <<>>, matched |-> <<>>]

set_attributes(session, db_country, country_dict) ==
    LET id == db_country.id
    IN  [session EXCEPT
            !.loaded = [i \in DOMAIN session.loaded \cup {id} |->
                          IF i \in DOMAIN session.loaded THEN session.loaded[i]
                          ELSE db_country],
            !.dirty = [i \in DOMAIN session.dirty \cup {id} |->
                          IF i = id THEN country_dict ELSE session.dirty[i]],
            !.reconciled = Append(@, country_dict),
            !.matched = Append(@, id)]

db_add(session, country_dict) ==
    [session EXCEPT !.new = Append(@, country_dict),
                    !.reconciled = Append(@, country_dict),
                    !.matched = Append(@, 0)]

(* One iteration of the loop after extract_country_data, main.py 94-103:   *)
(* every Session it can leave.                                             *)
upsert(table, session, country_dict) ==
    LET found == query_name_ilike(table, country_dict.name)
    IN  IF found # {}
        THEN {set_attributes(session, db_country, country_dict) : db_country \in found}
        ELSE {db_add(session, country_dict)}

(* The refresh loop, main.py 92-103: every Session it can end in.  draws   *)
(* and stamps are the values random.uniform and datetime.utcnow return in  *)
(* each iteration.                                                         *)
RECURSIVE refresh_loop(_, _, _, _, _, _)
refresh_loop(table, countries_data, exchange_rates, draws, stamps, session) ==
    IF countries_data = <<>> THEN {session}
    ELSE LET country_dict == extract_country_data(Head(countries_data), exchange_rates,
                                                  Head(draws), Head(stamps))
         IN  UNION { refresh_loop(table, Tail(countries_data), exchange_rates,
                                  Tail(draws), Tail(stamps), after)
                     : after \in upsert(table, session, country_dict) }

(* The UNIQUE constraint on name, checked as each statement runs *)
NameTaken(table, id, name) == \E r \in table : r.id # id /\ r.name = name

Columns ==
    { "name", "capital", "region", "population", "currency_code", "exchange_rate",
      "estimated_gdp", "flag_url", "last_refreshed_at" }

(* UPDATE countries SET ... WHERE id = :id.  The ORM sets the columns      *)
(* whose value differs from the copy it loaded, and last_refreshed_at by   *)
(* its onupdate=func.now() when that column is not among them.             *)
update_row(current, loaded, d, at) ==
    LET col(c) == IF d[c] # loaded[c] THEN d[c] ELSE current[c]
    IN  [ id |-> current.id, name |-> col("name"), capital |-> col("capital"),
          region |-> col("region"), population |-> col("population"),
          currency_code |-> col("currency_code"), exchange_rate |-> col("exchange_rate"),
          estimated_gdp |-> col("estimated_gdp"), flag_url |-> col("flag_url"),
          last_refreshed_at |-> IF d.last_refreshed_at # loaded.last_refreshed_at
                                THEN d.last_refreshed_at ELSE at ]

(* Flush, UPDATEs: one per dirty row with a changed column, by primary     *)
(* key; an UPDATE that finds no row raises StaleDataError.  [ok, table]    *)
RECURSIVE flush_updates(_, _, _, _)
flush_updates(table, session, todo, at) ==
    IF todo = {} THEN [ok |-> TRUE, table |-> table]
    ELSE LET id == CHOOSE i \in todo : \A j \in todo : i <= j
             d == session.dirty[id]
             loaded == session.loaded[id]
             rows == {r \in table : r.id = id}
         IN  IF \A c \in Columns : d[c] = loaded[c]
             THEN flush_updates(table, session, todo \ {id}, at)
             ELSE IF rows = {} THEN [ok |-> FALSE, table |-> table]
             ELSE LET current == CHOOSE r \in rows : TRUE
                      new == update_row(current, loaded, d, at)
                  IN  IF NameTaken(table, id, new.name)
                      THEN [ok |-> FALSE, table |-> table]
                      ELSE flush_updates((table \ {current}) \cup {new}, session,
                                         todo \ {id}, at)

(* Flush, INSERTs: in the order of db.add; each draws the next id, also    *)
(* the one that fails.  [ok, table, nextId]                                *)
RECURSIVE flush_inserts(_, _, _)
flush_inserts(table, new, id) ==
    IF new = <<>> THEN [ok |-> TRUE, table |-> table, nextId |-> id]
    ELSE IF NameTaken(table, id, Head(new).name)
         THEN [ok |-> FALSE, table |-> table, nextId |-> id + 1]
         ELSE flush_inserts(table \cup {Row(id, Head(new))}, Tail(new), id + 1)

(* db.commit() at time at: flush the UPDATEs, then the INSERTs, then       *)
(* COMMIT; a statement that fails raises (IntegrityError, StaleDataError)  *)
(* and the transaction is rolled back (the id sequence is not).            *)
(* [ok, table, nextId]                                                     *)
commit(table, session, id, at) ==
    LET u == flush_updates(table, session, DOMAIN session.dirty, at)
    IN  IF ~u.ok THEN [ok |-> FALSE, table |-> table, nextId |-> id]
        ELSE LET a == flush_inserts(u.table, session.new, id)
             IN  IF a.ok THEN a ELSE [ok |-> FALSE, table |-> table, nextId |-> a.nextId]

---------------------------------------------------------------------------
(* What the environment may hand a request *)

(* Non-decreasing clock readings: n of them, none before from *)
RECURSIVE Stamps(_, _, _)
Stamps(n, from, to) ==
    IF n = 0 THEN {<<>>}
    ELSE UNION {{<<t>> \o s : s \in Stamps(n - 1, t, to)} : t \in from..to}

RECURSIVE Draws(_, _)
Draws(n, samples) ==
    IF n = 0 THEN {<<>>}
    ELSE UNION {{<<m>> \o s : s \in Draws(n - 1, samples)} : m \in samples}

Failure == [ok |-> FALSE, body |-> <<>>]
ListBody(items) == [ok |-> TRUE, body |-> [kind |-> "list", items |-> items]]
ObjectBody(data) == [ok |-> TRUE, body |-> [kind |-> "object", data |-> data]]
RatesBody(rates) == [ok |-> TRUE, body |-> [rates |-> rates]]

---------------------------------------------------------------------------
(* POST /countries/refresh: main.refresh_countries *)

(* world: [countries, rates, samples, maxId, maxClock]: the HTTP exchanges *)
(* the two sources may answer with, the multipliers random.uniform may     *)
(* return, the last id the model lets the sequence reach and the last      *)
(* reading it lets the clock reach.                                        *)
(* stamps: the readings of datetime.utcnow() in the order the handler      *)
(* takes them: line 90 first, then one per loop iteration (utils.py 71).   *)
refresh_time_after_loop(stamps) == stamps[Len(stamps)]
refresh_time(stamps) == Head(stamps)

RefreshCountries(world) ==
    \E country_response \in world.countries, rate_response \in world.rates :
      LET countries_data == fetch_country_data(country_response)
          exchange_rates == fetch_exchange_rates(rate_response)
      IN  /\ req' = [op |-> "refresh", countries |-> country_response,
                     rates |-> rate_response]
          /\ IF IsNone(countries_data) \/ IsNone(exchange_rates)
             THEN \* ExternalAPIError, handled at main.py 38-46
                  /\ resp' = [status |-> 503, error |-> "External data source unavailable"]
                  /\ obs' = [op |-> "refresh", reconciled |-> <<>>, matched |-> <<>>]
                  /\ UNCHANGED <<store, nextId, now, cache, sess>>
             ELSE LET n == Len(Val(countries_data)) IN
                  /\ nextId + n - 1 <= world.maxId
                  /\ \E stamps \in Stamps(n + 1, now, world.maxClock), draws \in Draws(n, world.samples) :
                     \E session \in refresh_loop(store, Val(countries_data),
                                                 Val(exchange_rates), draws,
                                                 Tail(stamps), EmptySession) :
                       LET done == commit(store, session, nextId, stamps[n + 1])
                       IN  /\ now' = stamps[n + 1]
                           /\ obs' = [op |-> "refresh", reconciled |-> session.reconciled,
                                      matched |-> session.matched]
                           /\ store' = done.table
                           /\ nextId' = done.nextId
                           /\ resp' = IF done.ok
                                      THEN [status |-> 200,
                                            total_countries |-> Cardinality(done.table),
                                            last_refreshed_at |-> refresh_time(stamps)]
                                      ELSE \* SQLAlchemyError, handled at main.py 48-56
                                           [status |-> 500, error |-> "Database error"]
                           /\ UNCHANGED <<cache, sess>>

---------------------------------------------------------------------------
(* DELETE /countries/{name}: main.delete_country *)

DeleteCountry(names) ==
    \E name \in names :
      LET found == query_name_eq(store, name)
      IN  /\ req' = [op |-> "delete", name |-> name]
          /\ obs' = [op |-> "delete"]
          /\ IF found = {}
             THEN /\ resp' = [status |-> 404, error |-> "Country not found"]
                  /\ store' = store
             ELSE \E country \in found :
                  /\ resp' = [status |-> 200, body |-> "success"]
                  /\ store' = store \ {country}
          /\ UNCHANGED <<nextId, now, cache, sess>>
---------------------------------------------------------------------------
(* GET /countries/{name}: main.get_country *)

GetCountry(names) ==
    \E name \in names :
      LET found == query_name_eq(store, name)
      IN  /\ req' = [op |-> "get", name |-> name]
          /\ obs' = [op |-> "get"]
          /\ IF found = {}
             THEN resp' = [status |-> 404, error |-> "Country not found"]
             ELSE \E country \in found : resp' = [status |-> 200, body |-> country]
          /\ UNCHANGED <<store, nextId, now, cache, sess>>

---------------------------------------------------------------------------
(* GET /countries: main.get_countries *)

(* A Python str is falsy when empty: "if region:", "if currency:" *)
Truthy(param) == ~IsNone(param) /\ Val(param) # <<>>
GivenAtAll(param) == ~IsNone(param)

filter_countries_without_upper(table, region, currency) ==
    {r \in table :
        /\ Truthy(region) => r.region = region
        /\ Truthy(currency) => r.currency_code = currency}
filter_countries(table, region, currency) ==
    {r \in table :
        /\ Truthy(region) => r.region = region
        /\ Truthy(currency) => r.currency_code = Some(Upper(Val(currency)))}

(* ORDER BY estimated_gdp: PostgreSQL puts NULL first under DESC and last  *)
(* under ASC; rows that tie, and all rows when there is no ORDER BY, come  *)
(* in any order.  The rows that may come first:                            *)
FirstRowsAscending(rows, sort) ==
    LET nulls == {r \in rows : IsNone(r.estimated_gdp)}
        valued == rows \ nulls
        bottom == {r \in valued : \A o \in valued : Val(r.estimated_gdp) <= Val(o.estimated_gdp)}
    IN  IF sort = Some("gdp_desc") \/ sort = Some("gdp_asc")
        THEN (IF valued # {} THEN bottom ELSE nulls)
        ELSE rows
FirstRows(rows, sort) ==
    LET nulls == {r \in rows : IsNone(r.estimated_gdp)}
        valued == rows \ nulls
        top == {r \in valued : \A o \in valued : Val(r.estimated_gdp) >= Val(o.estimated_gdp)}
        bottom == {r \in valued : \A o \in valued : Val(r.estimated_gdp) <= Val(o.estimated_gdp)}
    IN  IF sort = Some("gdp_desc") THEN (IF nulls # {} THEN nulls ELSE top)
        ELSE IF sort = Some("gdp_asc") THEN (IF valued # {} THEN bottom ELSE nulls)
        ELSE rows

(* query.limit(limit).all(): every list the query may return *)
RECURSIVE query_all(_, _, _)
query_all(rows, sort, limit) ==
    IF rows = {} \/ limit = 0 THEN {<<>>}
    ELSE UNION {{<<r>> \o rest : rest \in query_all(rows \ {r}, sort, limit - 1)}
                : r \in FirstRows(rows, sort)}

GetCountries(regions, currencies, sorts) ==
    \E region \in regions, currency \in currencies, sort \in sorts :
      LET rows == filter_countries(store, region, currency)
      IN  /\ req' = [op |-> "list", region |-> region, currency |-> currency, sort |-> sort]
          /\ obs' = [op |-> "list"]
          /\ \E result \in query_all(rows, sort, Cardinality(rows)) :
                resp' = [status |-> 200, body |-> result]
          /\ UNCHANGED <<store, nextId, now, cache, sess>>

---------------------------------------------------------------------------
(* GET /countries/image: main.get_summary_image, utils.generate_summary_image *)

MaxOf(S) == CHOOSE x \in S : \A y \in S : y <= x

FirstN(q, n) == IF Len(q) <= n THEN q ELSE SubSeq(q, 1, n)

(* What generate_summary_image draws: the count, the timestamp and one     *)
(* "name: $gdp" line for each of top_gdp_countries[:5]                     *)
generate_summary_image(total_countries, top_gdp_countries, last_refresh) ==
    [ total |-> total_countries,
      last_refresh |-> last_refresh,
      lines |-> FirstN(top_gdp_countries, TopN) ]

(* disk_ok: whether mkdir and image.save succeed; when they raise, the     *)
(* handler answers 500 and no file is left.                                *)
GetSummaryImage ==
    \E disk_ok \in BOOLEAN :
      /\ req' = [op |-> "image", disk_ok |-> disk_ok]
      /\ UNCHANGED <<store, nextId, now, sess>>
      /\ IF cache
         THEN \* image_path.is_file(): the file is served as it is
              /\ resp' = [status |-> 200, file |-> "cache/summary.png"]
              /\ obs' = [op |-> "image", rendered |-> None]
              /\ cache' = cache
         ELSE IF Cardinality(store) = 0
         THEN /\ resp' = [status |-> 404, error |-> "Summary image not found"]
              /\ obs' = [op |-> "image", rendered |-> None]
              /\ cache' = cache
         ELSE \E top_gdp_countries \in
                    query_all({r \in store : ~IsNone(r.estimated_gdp)}, Some("gdp_desc"), TopN) :
              IF top_gdp_countries = <<>>
              THEN /\ resp' = [status |-> 404, error |-> "Summary image not found"]
                   /\ obs' = [op |-> "image", rendered |-> None]
                   /\ cache' = cache
              ELSE LET last_refresh == MaxOf({r.last_refreshed_at : r \in store})
                       picture == generate_summary_image(
                                      Cardinality(store),
                                      [i \in 1..Len(top_gdp_countries) |->
                                          [name |-> top_gdp_countries[i].name,
                                           estimated_gdp |-> Val(top_gdp_countries[i].estimated_gdp)]],
                                      last_refresh)
                   IN  /\ obs' = [op |-> "image", rendered |-> Some(picture)]
                       /\ IF disk_ok
                          THEN /\ cache' = TRUE
                               /\ resp' = [status |-> 200, file |-> "cache/summary.png"]
                          ELSE /\ cache' = cache
                               /\ resp' = [status |-> 500,
                                           error |-> "Failed to generate or serve summary image"]

---------------------------------------------------------------------------
(* The Record Reconciler on its own: one call of utils.extract_country_data *)

Reconcile(entries, tables, samples) ==
    \E country_data \in entries, exchange_rates \in tables, gdp_per_capita \in samples :
      /\ req' = [op |-> "reconcile", country_data |-> country_data,
                 exchange_rates |-> exchange_rates, gdp_per_capita |-> gdp_per_capita]
      /\ obs' = [op |-> "reconcile",
                 country_dict |-> extract_country_data(country_data, exchange_rates,
                                                       gdp_per_capita, now)]
      /\ resp' = [status |-> 0]
      /\ UNCHANGED <<store, nextId, now, cache, sess>>

---------------------------------------------------------------------------
(* Two POST /countries/refresh requests served at the same time.  Each has *)
(* its own Session (get_db) and runs refresh_countries statement by        *)
(* statement; sess[c] is the position and the locals of call c.  The       *)
(* lookups read the committed rows; db.commit() is one step.               *)

Calls == {"A", "B"}

IdleCall ==
    [pc |-> "idle", todo |-> <<>>, exchange_rates |-> <<>>, refresh_time |-> 0,
     session |-> EmptySession, committed_at |-> 0, resp |-> [status |-> 0]]

(* main.py 87-90: the two fetches and refresh_time *)
BeginRefresh(c, world) ==
    /\ sess[c].pc = "idle"
    /\ \E country_response \in world.countries, rate_response \in world.rates :
         LET countries_data == fetch_country_data(country_response)
             exchange_rates == fetch_exchange_rates(rate_response)
         IN  IF IsNone(countries_data) \/ IsNone(exchange_rates)
             THEN /\ sess' = [sess EXCEPT ![c].pc = "done",
                                          ![c].resp = [status |-> 503,
                                                       error |-> "External data source unavailable"]]
                  /\ UNCHANGED now
             ELSE \E utcnow \in now..world.maxClock :
                    /\ now' = utcnow
                    /\ sess' = [sess EXCEPT ![c].pc = "loop",
                                            ![c].todo = Val(countries_data),
                                            ![c].exchange_rates = Val(exchange_rates),
                                            ![c].refresh_time = utcnow]
    /\ UNCHANGED <<store, nextId, cache, req, obs, resp>>

(* main.py 92-103: one iteration of the loop *)
IterateRefresh(c, world) ==
    /\ sess[c].pc = "loop"
    /\ sess[c].todo # <<>>
    /\ \E gdp_per_capita \in world.samples, utcnow \in now..world.maxClock :
         LET country_dict == extract_country_data(Head(sess[c].todo), sess[c].exchange_rates,
                                                  gdp_per_capita, utcnow)
         IN  \E after \in upsert(store, sess[c].session, country_dict) :
               /\ now' = utcnow
               /\ sess' = [sess EXCEPT ![c].todo = Tail(@), ![c].session = after]
    /\ UNCHANGED <<store, nextId, cache, req, obs, resp>>

(* main.py 105-108: db.commit(), the count and the response *)
CommitRefresh(c, world) ==
    /\ sess[c].pc = "loop"
    /\ sess[c].todo = <<>>
    /\ nextId + Len(sess[c].session.new) - 1 <= world.maxId
    /\ LET done == commit(store, sess[c].session, nextId, now)
           earlier == Cardinality({o \in Calls : sess[o].committed_at > 0})
       IN  /\ store' = done.table
           /\ nextId' = done.nextId
           /\ sess' = [sess EXCEPT
                  ![c].pc = "done",
                  ![c].committed_at = IF done.ok THEN earlier + 1 ELSE 0,
                  ![c].resp = IF done.ok
                              THEN [status |-> 200,
                                    total_countries |-> Cardinality(done.table),
                                    last_refreshed_at |-> sess[c].refresh_time]
                              ELSE [status |-> 500, error |-> "Database error"]]
    /\ UNCHANGED <<now, cache, req, obs, resp>>

(* A refresh served alone, before the two calls arrive *)
RefreshAlone(world) ==
    /\ \A c \in Calls : sess[c].pc = "idle"
    /\ RefreshCountries(world)

---------------------------------------------------------------------------
(* The data the two sources answer with *)

Raw(name, capital, region, population, flag, currencies) ==
    [ name |-> name, capital |-> capital, region |-> region,
      population |-> population, flag |-> flag, currencies |-> currencies ]

Africa == <<"A", "f", "r", "i", "c", "a">>
Asia == <<"A", "s", "i", "a">>
Europe == <<"E", "u", "r", "o", "p", "e">>
USD == <<"U", "S", "D">>
EUR == <<"E", "U", "R">>

RECURSIVE SeqsUpTo(_, _)
SeqsUpTo(S, n) ==
    IF n = 0 THEN {<<>>}
    ELSE LET shorter == SeqsUpTo(S, n - 1)
         IN  shorter \cup {Append(q, x) : q \in {r \in shorter : Len(r) = n - 1}, x \in S}

GdpSamples == {GdpPerCapitaMin, (GdpPerCapitaMin + GdpPerCapitaMax) \div 2}

(* Names that differ only in letter case, and a name holding "_" *)
UpsertEntries ==
    { Raw(<<"a", "b">>, Some("Abuja"), Some(Africa), Some(5), Some("ab.svg"), <<Some(USD)>>),
      Raw(<<"A", "b">>, None, Some(Asia), Some(0), None, <<>>),
      Raw(<<"a", "_">>, Some("Riga"), None, None, Some("a_.svg"), <<Some(EUR), Some(USD)>>) }

UpsertRates == (USD :> 1) @@ (EUR :> 2)

UpsertWorld ==
    [ countries |-> {Failure} \cup {ListBody(b) : b \in SeqsUpTo(UpsertEntries, MaxBatch)},
      rates |-> {Failure, RatesBody(Some(UpsertRates))},
      samples |-> GdpSamples,
      maxId |-> MaxId,
      maxClock |-> 0 ]

UpsertNames == {e.name : e \in UpsertEntries}

(* Two plain names, a clock that advances, every kind of answer *)
RefreshEntries ==
    { Raw(<<"c", "d">>, Some("Cairo"), Some(Africa), Some(7), Some("cd.svg"), <<Some(USD)>>),
      Raw(<<"d", "e">>, None, Some(Europe), Some(-1), None, <<>>) }

RefreshWorld ==
    [ countries |-> {Failure, ObjectBody(None)}
                    \cup {ListBody(b) : b \in SeqsUpTo(RefreshEntries, MaxBatch)},
      rates |-> {Failure, RatesBody(Some(UpsertRates)), RatesBody(None)},
      samples |-> {GdpPerCapitaMin},
      maxId |-> MaxId,
      maxClock |-> MaxClock ]

RefreshNames == {e.name : e \in RefreshEntries}

(* Raw entries and rate tables for the reconciler: missing, zero, negative  *)
(* and positive populations; no currency, a currency without a code, one   *)
(* the table lacks; rates that are positive, zero and negative.            *)
ReconcileEntries ==
    { Raw(<<"a", "b">>, Some("Abuja"), Some(Africa), population, None, currencies) :
        population \in {None, Some(-4), Some(0), Some(4)},
        currencies \in {<<>>, <<None>>, <<Some(USD)>>, <<Some(EUR), Some(USD)>>,
                        <<Some(<<"u", "s", "d">>)>>} }

ReconcileTables ==
    { <<>>, (USD :> 1) @@ (EUR :> 2), (USD :> 0) @@ (EUR :> 4), (USD :> -2) }

(* Records that differ in name only by letter case, in region and in the   *)
(* case of the stored currency code                                        *)
QueryEntries ==
    { Raw(<<"a", "b">>, None, Some(Europe), Some(3), None, <<Some(USD)>>),
      Raw(<<"A", "b">>, None, Some(Europe), Some(3), None, <<Some(<<"u", "s", "d">>)>>),
      Raw(<<"c", "d">>, None, Some(Asia), Some(3), None, <<Some(USD)>>) }

QueryWorld ==
    [ countries |-> {ListBody(b) : b \in SeqsUpTo(QueryEntries, MaxBatch)},
      rates |-> {RatesBody(Some(UpsertRates))},
      samples |-> {GdpPerCapitaMin},
      maxId |-> MaxId,
      maxClock |-> 0 ]

QueryNames == {e.name : e \in QueryEntries} \cup {<<"A", "B">>}
QueryRegions == {None, Some(<<>>), Some(Europe), Some(Lower(Europe))}
QueryCurrencies == {None, Some(<<>>), Some(<<"u", "s", "d">>), Some(<<"E", "u", "r">>)}
QuerySorts == {None, Some("gdp_desc"), Some("gdp_asc")}

(* Seven records, six of them with an estimated_gdp (two of these tie),    *)
(* so that the five highest are a proper part of them                      *)
Plain(name, population, currencies) ==
    Raw(<<name>>, None, Some(Asia), Some(population), None, currencies)

ImageBatches ==
    { << Plain("a", 2, <<Some(USD)>>), Plain("b", 2, <<Some(USD)>>),
         Plain("c", 3, <<Some(USD)>>), Plain("d", 4, <<Some(USD)>>),
         Plain("e", 5, <<Some(USD)>>), Plain("r", 6, <<Some(USD)>>),
         Plain("s", 7, <<>>) >>,
      << Plain("s", 7, <<>>) >>,
      << Plain("a", 2, <<Some(USD)>>) >> }

ImageWorld ==
    [ countries |-> {ListBody(b) : b \in ImageBatches},
      rates |-> {RatesBody(Some(UpsertRates))},
      samples |-> {GdpPerCapitaMin},
      maxId |-> MaxId + TopN,
      maxClock |-> 0 ]

ImageNames == UNION {{b[i].name : i \in 1..Len(b)} : b \in ImageBatches}

(* Overlapping refreshes: two answers for the same name, and a new name *)
OverlapEntries ==
    << Raw(<<"a", "b">>, Some("Abuja"), Some(Africa), Some(3), Some("ab.svg"), <<Some(USD)>>),
       Raw(<<"a", "b">>, Some("Accra"), Some(Africa), Some(3), Some("ab.svg"), <<Some(USD)>>) >>

OverlapWorld ==
    [ countries |-> {Failure, ListBody(<< OverlapEntries[1] >>),
                     ListBody(<< OverlapEntries[2] >>)},
      rates     |-> {RatesBody(Some(UpsertRates))},
      samples   |-> {GdpPerCapitaMin},
      maxId     |-> MaxId,
      maxClock  |-> MaxClock ]


---------------------------------------------------------------------------
(* Specifications *)

Idle == [op |-> "none"]

Init ==
    /\ store = {}
    /\ nextId = 1
    /\ now = 0
    /\ cache = FALSE
    /\ req = Idle
    /\ obs = Idle
    /\ resp = [status |-> 0]
    /\ sess = [c \in Calls |-> IdleCall]

(* Refresh and delete, over names that collide under ILIKE *)
Next ==
    \/ RefreshCountries(UpsertWorld)
    \/ DeleteCountry(UpsertNames)

Spec == Init /\ [][Next]_vars

(* Refresh and delete, with failing sources and a clock that advances *)
NextRefresh ==
    \/ RefreshCountries(RefreshWorld)
    \/ DeleteCountry(RefreshNames)

SpecRefresh == Init /\ [][NextRefresh]_vars

(* The reconciler applied to every entry and table *)
NextReconcile == Reconcile(ReconcileEntries, ReconcileTables, GdpSamples)

SpecReconcile == Init /\ [][NextReconcile]_vars

(* The read path and delete over a refreshed store *)
NextQuery ==
    \/ RefreshCountries(QueryWorld)
    \/ GetCountries(QueryRegions, QueryCurrencies, QuerySorts)
    \/ GetCountry(QueryNames)
    \/ DeleteCountry(QueryNames)

SpecQuery == Init /\ [][NextQuery]_vars

(* The summary image over a store that is refreshed and emptied *)
NextImage ==
    \/ RefreshCountries(ImageWorld)
    \/ GetSummaryImage
    \/ DeleteCountry(ImageNames)

SpecImage == Init /\ [][NextImage]_vars

(* Two refreshes that overlap, after refreshes served alone *)
NextOverlap ==
    \/ RefreshAlone(OverlapWorld)
    \/ \E c \in Calls : BeginRefresh(c, OverlapWorld)
    \/ \E c \in Calls : IterateRefresh(c, OverlapWorld)
    \/ \E c \in Calls : CommitRefresh(c, OverlapWorld)

SpecOverlap == Init /\ [][NextOverlap]_vars

---------------------------------------------------------------------------
(* Claims about the upsert (checked under Spec) *)

IsStep(op) == req'.op = op /\ vars' # vars
Items(request) == fetch_country_data(request.countries)
Names(table) == {r.name : r \in table}
Ids(table) == {r.id : r \in table}

(* C2: upsert correctness.  For every raw entry of a successful refresh    *)
(* (one whose name no other entry of the batch repeats, ignoring case):    *)
(* a stored record whose name equals the entry's ignoring case keeps its   *)
(* id and holds, in every other field, the entry's freshly reconciled      *)
(* values; when there is no such record, exactly one record is inserted    *)
(* for the entry, under an id no other record of the store has or had.     *)
C2_UpsertCorrect ==
    [][ (IsStep("refresh") /\ resp'.status = 200) =>
        \A i \in 1..Len(obs'.reconciled) :
          LET d == obs'.reconciled[i]
              repeated == \E j \in 1..Len(obs'.reconciled) :
                            j # i /\ SameNameIgnoringCase(obs'.reconciled[j].name, d.name)
              existing == {r \in store : SameNameIgnoringCase(r.name, d.name)}
              inserted == {r \in store' : r.id \notin Ids(store) /\ r = Row(r.id, d)}
          IN  ~repeated =>
                IF existing # {}
                THEN \A r \in existing : Row(r.id, d) \in store'
                ELSE /\ Cardinality(inserted) = 1
                     /\ \A r \in inserted : \A o \in store' : o.id = r.id => o = r
      ]_vars

(* C3: no two stored records have names that are equal ignoring case *)
C3_NamesUniqueIgnoringCase ==
    \A r1, r2 \in store : SameNameIgnoringCase(r1.name, r2.name) => r1 = r2

(* C4: a refresh that follows a successful refresh with the same external  *)
(* data leaves the record count and the set of names as they were.         *)
C4_StructureIdempotent ==
    [][ ( /\ req.op = "refresh" /\ resp.status = 200
          /\ IsStep("refresh")
          /\ req'.countries = req.countries /\ req'.rates = req.rates ) =>
        /\ Cardinality(store') = Cardinality(store)
        /\ Names(store') = Names(store)
      ]_vars

---------------------------------------------------------------------------
(* Claims about one refresh (checked under SpecRefresh) *)

FetchFailed(request) == ~request.countries.ok \/ ~request.rates.ok

(* C1: when either fetch fails, the refresh answers "external source       *)
(* unavailable" (503) and the store is as it was: the same records with    *)
(* the same ids and fields, none added.                                    *)
C1_FetchFailureLeavesStore ==
    [][ (IsStep("refresh") /\ FetchFailed(req')) =>
        /\ resp'.status = 503
        /\ resp'.error = "External data source unavailable"
        /\ store' = store
        /\ nextId' = nextId
      ]_vars

(* A refresh whose rates fetch alone failed, answered over a store that holds records *)
C1_Witness ==
    /\ req.op = "refresh" /\ req.countries.ok /\ ~req.rates.ok
    /\ Len(Val(Items(req))) > 0
    /\ resp.status = 503
    /\ store # {}

Written == store' \ store

(* C5 as claimed: the summary's timestamp is never earlier than the         *)
(* last_refreshed_at of a record the refresh wrote.                        *)
C5_SummaryNotEarlier ==
    [][ (IsStep("refresh") /\ resp'.status = 200) =>
        \A r \in Written : resp'.last_refreshed_at >= r.last_refreshed_at
      ]_vars

(* C5 amended: the summary's timestamp is read before the first record is  *)
(* reconciled, so it is never later than the last_refreshed_at of a record *)
(* the refresh wrote (nor than any reconciliation of the cycle); its count *)
(* is the number of records in the store after the commit.                 *)
C5_SummaryNotLater ==
    [][ (IsStep("refresh") /\ resp'.status = 200) =>
        /\ \A r \in Written : resp'.last_refreshed_at <= r.last_refreshed_at
        /\ \A i \in 1..Len(obs'.reconciled) :
              resp'.last_refreshed_at <= obs'.reconciled[i].last_refreshed_at
        /\ resp'.total_countries = Cardinality(store')
      ]_vars

(* A successful refresh that wrote two records, one stamped later than the summary *)
C5_Witness ==
    /\ req.op = "refresh" /\ resp.status = 200
    /\ Len(obs.reconciled) = 2
    /\ resp.total_countries = 2
    /\ \E r \in store : r.last_refreshed_at > resp.last_refreshed_at
    /\ \A r \in store : r.last_refreshed_at >= resp.last_refreshed_at

---------------------------------------------------------------------------
(* Claims about the reconciler (checked under SpecReconcile) *)

(* C6 as claimed: a reconciled record with exchange_rate present has       *)
(* estimated_gdp present and strictly positive, whatever the rate.         *)
C6_GdpPositiveWheneverRatePresent ==
    obs.op = "reconcile" =>
        LET d == obs.country_dict
        IN  ~IsNone(d.exchange_rate) =>
                ~IsNone(d.estimated_gdp) /\ Val(d.estimated_gdp) > 0

(* C6 amended: the reconciled population is always > 0, and a reconciled   *)
(* record whose exchange_rate is present and strictly positive has         *)
(* estimated_gdp present and strictly positive.                            *)
C6_GdpPositiveWhenRatePositive ==
    obs.op = "reconcile" =>
        LET d == obs.country_dict
        IN  /\ d.population > 0
            /\ (~IsNone(d.exchange_rate) /\ Val(d.exchange_rate) > 0) =>
                   ~IsNone(d.estimated_gdp) /\ Val(d.estimated_gdp) > 0

(* An entry with population 0 and a currency the table rates positively *)
C6_Witness ==
    /\ obs.op = "reconcile"
    /\ req.country_data.population = Some(0)
    /\ obs.country_dict.population = DefaultPopulation
    /\ ~IsNone(obs.country_dict.exchange_rate) /\ Val(obs.country_dict.exchange_rate) > 0
    /\ ~IsNone(obs.country_dict.estimated_gdp) /\ Val(obs.country_dict.estimated_gdp) > 0

---------------------------------------------------------------------------
(* Claims about the read path and delete (checked under SpecQuery) *)

ExactMatches(table, name) == {r \in table : r.name = name}

(* C8: get(name) and delete(name) match the name exactly.  With no record  *)
(* of exactly that name both answer not-found (404) and the store is as it *)
(* was; with one, get returns it and leaves the store alone, delete        *)
(* removes that record and no other.                                       *)
C8_GetDeleteExact ==
    [][ /\ IsStep("get") =>
            /\ store' = store
            /\ IF ExactMatches(store, req'.name) = {}
               THEN resp'.status = 404
               ELSE resp'.status = 200 /\ resp'.body \in ExactMatches(store, req'.name)
        /\ IsStep("delete") =>
            IF ExactMatches(store, req'.name) = {}
            THEN resp'.status = 404 /\ store' = store
            ELSE /\ resp'.status = 200
                 /\ Cardinality(ExactMatches(store, req'.name)) = 1
                 /\ store' = store \ ExactMatches(store, req'.name)
      ]_vars

(* A delete that succeeded while a record whose name differs only in case stays *)
C8_Witness ==
    /\ req.op = "delete" /\ resp.status = 200
    /\ \E r \in store : SameNameIgnoringCase(r.name, req.name)

Range(q) == {q[i] : i \in 1..Len(q)}

(* C9 as claimed: a filter applies whenever its parameter is given *)
C9_ListFiltersWhenGiven ==
    [][ IsStep("list") =>
        /\ store' = store
        /\ Len(resp'.body) = Cardinality(Range(resp'.body))
        /\ Range(resp'.body) =
             {r \in store :
                /\ GivenAtAll(req'.region) => r.region = req'.region
                /\ GivenAtAll(req'.currency) =>
                       r.currency_code = Some(Upper(Val(req'.currency)))}
      ]_vars

(* C9 amended: a filter applies when its parameter is given and not empty; *)
(* an empty region or currency filters nothing.  The rows returned are     *)
(* exactly the stored records that pass every filter that applies, each    *)
(* once, and the store is left as it was.                                  *)
C9_ListFiltersWhenNonEmpty ==
    [][ IsStep("list") =>
        /\ store' = store
        /\ resp'.status = 200
        /\ Len(resp'.body) = Cardinality(Range(resp'.body))
        /\ Range(resp'.body) =
             {r \in store :
                /\ (GivenAtAll(req'.region) /\ Val(req'.region) # <<>>) =>
                       r.region = req'.region
                /\ (GivenAtAll(req'.currency) /\ Val(req'.currency) # <<>>) =>
                       r.currency_code = Some(Upper(Val(req'.currency)))}
      ]_vars

(* Both filters given in lower case over a store where they tell records apart *)
C9_Witness ==
    /\ req.op = "list"
    /\ req.region = Some(Europe) /\ req.currency = Some(<<"u", "s", "d">>)
    /\ Len(resp.body) = 1
    /\ Cardinality(store) = 3

---------------------------------------------------------------------------
(* Claims about the summary image (checked under SpecImage) *)

Valued(table) == {r \in table : ~IsNone(r.estimated_gdp)}
Min(a, b) == IF a <= b THEN a ELSE b

(* lines are the records of the table with the highest estimated_gdp, at   *)
(* most TopN of them, each once, in descending order                       *)
IsTopByGdp(lines, table) ==
    LET shown == {r \in Valued(table) :
                    \E i \in 1..Len(lines) :
                        lines[i] = [name |-> r.name, estimated_gdp |-> Val(r.estimated_gdp)]}
    IN  /\ Len(lines) = Min(TopN, Cardinality(Valued(table)))
        /\ Cardinality(shown) = Len(lines)
        /\ \A i \in 1..Len(lines) :
              \E r \in shown :
                  lines[i] = [name |-> r.name, estimated_gdp |-> Val(r.estimated_gdp)]
        /\ \A i, j \in 1..Len(lines) :
              i < j => lines[i].estimated_gdp >= lines[j].estimated_gdp
        /\ \A r \in Valued(table) \ shown :
              \A i \in 1..Len(lines) : Val(r.estimated_gdp) <= lines[i].estimated_gdp

(* C7 as claimed: 404 whenever the store is empty; with records and no     *)
(* cached asset, the picture is drawn from the top records (read in the    *)
(* claim's favour: nothing is asked when no record has an estimated_gdp).  *)
C7_NotFoundWheneverEmpty ==
    [][ IsStep("image") =>
        /\ store = {} => resp'.status = 404
        /\ (store # {} /\ ~cache /\ Valued(store) # {}) =>
              /\ ~IsNone(obs'.rendered)
              /\ IsTopByGdp(Val(obs'.rendered).lines, store)
      ]_vars

(* C7 amended: a cached asset is served whenever there is one, whatever    *)
(* the store holds; without one the answer is 404 when the store is empty  *)
(* or no record has an estimated_gdp, and otherwise the picture is drawn   *)
(* from exactly the (at most five) records with the highest non-null       *)
(* estimated_gdp, in descending order, and from the count of all records.  *)
C7_CachedOrTopFive ==
    [][ IsStep("image") =>
        /\ store' = store
        /\ IF cache
           THEN resp'.status = 200 /\ IsNone(obs'.rendered) /\ cache'
           ELSE IF store = {} \/ Valued(store) = {}
           THEN resp'.status = 404 /\ IsNone(obs'.rendered) /\ ~cache'
           ELSE /\ ~IsNone(obs'.rendered)
                /\ IsTopByGdp(Val(obs'.rendered).lines, store)
                /\ Val(obs'.rendered).total = Cardinality(store)
                /\ \/ resp'.status = 200 /\ cache'
                   \/ resp'.status = 500 /\ ~cache'
      ]_vars

(* A picture drawn from five of six records that have an estimated_gdp *)
C7_Witness ==
    /\ req.op = "image" /\ resp.status = 200
    /\ ~IsNone(obs.rendered)
    /\ Cardinality(Valued(store)) > TopN
    /\ Len(Val(obs.rendered).lines) = TopN

---------------------------------------------------------------------------
(* Claims about overlapping refreshes (checked under SpecOverlap) *)

Committed(c) == sess[c].pc = "done" /\ sess[c].committed_at > 0

Mentioned(c) ==
    {sess[c].session.reconciled[i].name : i \in DOMAIN sess[c].session.reconciled}

(* The country_dict call c reconciled last for a name *)
LastWritten(c, name) ==
    LET q == sess[c].session.reconciled
        i == CHOOSE k \in DOMAIN q :
               q[k].name = name /\ \A l \in DOMAIN q : q[l].name = name => l <= k
    IN  q[i]

(* C10: once two overlapping refreshes have both committed, every name     *)
(* mentioned by both is held by exactly one stored record, and that        *)
(* record's fields (its refresh timestamp aside) are the values the call   *)
(* that committed last reconciled for the name.                            *)
C10_LastCommittedWins ==
    (\A c \in Calls : Committed(c)) =>
        LET last == CHOOSE c \in Calls : sess[c].committed_at = Cardinality(Calls)
        IN  \A name \in Mentioned("A") \cap Mentioned("B") :
              /\ Cardinality({r \in store : r.name = name}) = 1
              /\ \A r \in store :
                   r.name = name =>
                     \A column \in Columns \ {"last_refreshed_at"} :
                       r[column] = LastWritten(last, name)[column]

====
